---- MODULE Spec2Model ----
(***************************************************************************)
(* Model of the pitch_shifter VST plugin: the atomic parameter store of    *)
(* src/src/parameters.rs and the audio engine of src/src/lib.rs.           *)
(*                                                                         *)
(* Floating point.  An f32 held in an AtomicFloat is its 32-bit pattern,   *)
(* modelled as the two 16-bit halves [hi, lo] of the u32 (TLC integers are *)
(* 32-bit signed).  Arithmetic is done on decoded values: a record         *)
(* [k, v] with k = "fin" (v a fixed-point integer), k = "inf" (v = +1/-1)  *)
(* or k = "nan".  Finite values are fixed-point numbers, the scale being   *)
(* named with each quantity; products and quotients truncate toward zero   *)
(* where IEEE rounds to nearest.  Negative zero and subnormals decode to   *)
(* zero, finite values of magnitude 2^24 and above are outside the inputs. *)
(***************************************************************************)
EXTENDS Integers, Sequences, FiniteSets, TLC

\* ------------------------------------------------------------ bounds
\* Samples per channel the host hands to process over the whole run, in
\* buffers of any length from 1 up to what is left.
MaxSamples == 3

\* ------------------------------------------------- program constants
WINDOW_LENGTH == 1024
CHANNEL_COUNT == 2
DEFAULT_RATE == 44100
\* PITCH_PER_FINE_PITCH is 1.0/FINE_DIV
FINE_DIV == 12
\* CENTS_PER_UNIT_PITCH is FINE_DIV*CENTS_PER_SEMITONE*OCTAVES_PER_UNIT_PITCH
CENTS_PER_SEMITONE == 100
\* the factor of the mix text, a percentage
PERCENT == 100
\* 1000 * PI, 1000 * TAU, 1000 * 2^MARGIN and 1000 * 2^-MARGIN (MARGIN = 0.2)
PI_FX == 3142
TAU_FX == 6283
POW_MARGIN_FX == 1149
POW_NEG_MARGIN_FX == 871
\* size in bytes of one serialized f32 field (the N of split_array_ref)
FIELD_BYTES == 4

\* Fixed-point scale of f32 parameter values and of audio samples: quarter
\* steps of the normalized range, times FINE_DIV so that 1/12 is exact.
ParamScale == 4 * FINE_DIV
\* Fixed-point scale of the f64 pitch ratio.
RatioScale == 2^12
\* Fixed-point scale of the constants PI, TAU, 2^MARGIN, 2^-MARGIN.
ConstScale == 10^3

\* ------------------------------------------------- float arithmetic
Fin(n) == [k |-> "fin", v |-> n]
NaN == [k |-> "nan", v |-> 0]
Inf(s) == [k |-> "inf", v |-> s]

IsNaN(a) == a.k = "nan"
IsFinite(a) == a.k = "fin"
Sign(n) == IF n < 0 THEN -1 ELSE 1
Abs(n) == IF n < 0 THEN -n ELSE n
\* integer quotient truncated toward zero (b # 0)
TruncDiv(a, b) == Sign(a) * Sign(b) * (Abs(a) \div Abs(b))
\* remainder with the sign of the dividend, as Rust's % on floats (fmod)
TruncRem(a, b) == Sign(a) * (Abs(a) % Abs(b))

FNeg(a) == IF a.k = "nan" THEN NaN ELSE [k |-> a.k, v |-> -a.v]

FAdd(a, b) ==
  IF a.k = "nan" \/ b.k = "nan" THEN NaN
  ELSE IF a.k = "inf" /\ b.k = "inf" THEN (IF a.v = b.v THEN a ELSE NaN)
  ELSE IF a.k = "inf" THEN a
  ELSE IF b.k = "inf" THEN b
  ELSE Fin(a.v + b.v)

FSub(a, b) == FAdd(a, FNeg(b))

\* product of two values of scale sc, at scale sc
FMul(a, b, sc) ==
  IF a.k = "nan" \/ b.k = "nan" THEN NaN
  ELSE IF a.k = "inf" \/ b.k = "inf"
       THEN (IF a.v = 0 \/ b.v = 0 THEN NaN ELSE Inf(Sign(a.v) * Sign(b.v)))
  ELSE Fin(TruncDiv(a.v * b.v, sc))

\* quotient of two values of scale sc, at scale sc
FDiv(a, b, sc) ==
  IF a.k = "nan" \/ b.k = "nan" THEN NaN
  ELSE IF a.k = "inf" THEN (IF b.k = "inf" THEN NaN ELSE Inf(a.v * Sign(b.v)))
  ELSE IF b.k = "inf" THEN Fin(0)
  ELSE IF b.v = 0 THEN (IF a.v = 0 THEN NaN ELSE Inf(Sign(a.v)))
  ELSE Fin(TruncDiv(a.v * sc, b.v))

\* Rust's a % b on floats, b finite and nonzero
FRem(a, b) ==
  IF a.k # "fin" \/ b.k # "fin" THEN NaN
  ELSE IF b.v = 0 THEN NaN
  ELSE Fin(TruncRem(a.v, b.v))

\* comparisons: every comparison with NaN is false, except !=
FLt(a, b) ==
  /\ a.k # "nan" /\ b.k # "nan"
  /\ IF a.k = "inf" THEN a.v < 0 /\ a # b
     ELSE IF b.k = "inf" THEN b.v > 0
     ELSE a.v < b.v
FGt(a, b) == FLt(b, a)
FEq(a, b) == a.k # "nan" /\ b.k # "nan" /\ a = b
FNe(a, b) == ~FEq(a, b)
FLe(a, b) == FLt(a, b) \/ FEq(a, b)

\* a finite number n/from re-expressed at scale to (the `as f64` widening of
\* an f32 is exact; the change of scale is the model's, not the code's)
Rescale(a, from, to) ==
  IF a.k = "fin" THEN Fin(TruncDiv(a.v * to, from)) ELSE a

\* ------------------------------------------------------- f32 <-> bits
U32(hi, lo) == [hi |-> hi, lo |-> lo]

\* f32::to_le_bytes: the four bytes of the bit pattern, least significant first
ToLeBytes(u) == <<u.lo % 256, u.lo \div 256, u.hi % 256, u.hi \div 256>>

\* from_be_bytes in place of from_le_bytes
FromBeBytes(b) == U32(b[1] * 256 + b[2], b[3] * 256 + b[4])

\* f32::from_le_bytes
FromLeBytes(b) == U32(b[4] * 256 + b[3], b[2] * 256 + b[1])

\* The value of an f32 bit pattern at scale ParamScale: sign bit, 8-bit
\* biased exponent e, 23-bit fraction m; value = (2^23 + m) * 2^(e - 150).
F32Value(u) ==
  LET s == u.hi \div 32768
      e == (u.hi \div 128) % 256
      m == (u.hi % 128) * 65536 + u.lo
      sgn == IF s = 1 THEN -1 ELSE 1
  IN  IF e = 255 THEN (IF m = 0 THEN Inf(sgn) ELSE NaN)
      ELSE IF e = 0 \/ 150 - e > 30 THEN Fin(0)
      ELSE IF e >= 150 THEN Fin(sgn * (2^23 + m) * ParamScale * 2^(e - 150))
      ELSE Fin(sgn * (((2^23 + m) * ParamScale) \div 2^(150 - e)))

\* floor(log2(a / sc)) for a > 0
RECURSIVE Log2Floor(_, _)
Log2Floor(a, sc) ==
  IF a < sc THEN Log2Floor(2 * a, sc) - 1
  ELSE IF a >= 2 * sc THEN Log2Floor(a \div 2, sc) + 1
  ELSE 0

\* The bit pattern of a value of scale ParamScale (f32::to_bits).
F32Bits(a) ==
  IF a.k = "nan" THEN U32(32704, 0)
  ELSE IF a.k = "inf" THEN (IF a.v > 0 THEN U32(32640, 0) ELSE U32(65408, 0))
  ELSE IF a.v = 0 THEN U32(0, 0)
  ELSE LET mag == Abs(a.v)
           ex == Log2Floor(mag, ParamScale)
           mant == IF ex <= 23 THEN (mag * 2^(23 - ex)) \div ParamScale
                   ELSE (mag \div ParamScale) * 2^(ex - 23)
           m == mant - 2^23
           s == IF a.v < 0 THEN 1 ELSE 0
       IN  U32(s * 32768 + (ex + 127) * 128 + m \div 65536, m % 65536)

\* ---------------------------------------------------------------- state
VARIABLES
  pitch, pitch_fine, mix,   \* BasicFilterParameters: the three AtomicFloat bit patterns
  ld,                       \* load_preset_data in progress: its data, its offset i and
                            \* the store as it was on entry
  ret,                      \* the automation thread's last call and its outcome
  rate,                     \* PitchShifterPlugin.rate, in Hz
  pitch_mul,                \* PitchShifterPlugin.pitch_mul, the cached ratio
  anti_alias_filter,        \* per channel, the omega of the four band-limiting stages
  omega,                    \* per channel, the phase accumulator
  pc,                       \* position of the audio thread inside process
  l_pitch, l_fine, l_mix,   \* the parameter values process has read
  len, ch, n,               \* buffer length, current channel and sample index
  x, y, out,                \* input, processed and output value of the last sample
  recomputed,               \* this process call took the cutoff branch
  applied,                  \* the <<ratio, increment, mix>> applied to this call's samples
  held,                     \* this call read the pitch and fine-pitch the previous call read
  samples                   \* samples per channel handed to process so far

params == <<pitch, pitch_fine, mix>>
auto == <<ld, ret>>
engine == <<rate, pitch_mul, anti_alias_filter, omega>>
audio == <<pc, l_pitch, l_fine, l_mix, len, ch, n, x, y, out, recomputed, applied,
           held, samples>>
vars == <<params, auto, engine, audio>>

Channels == 0 .. CHANNEL_COUNT - 1

\* -------------------------------------------------- parameters.rs
One == Fin(ParamScale)
PITCH_PER_FINE_PITCH == Fin(ParamScale \div FINE_DIV)
OCTAVES_PER_UNIT_PITCH == One
CENTS_PER_UNIT_PITCH ==
  FMul(Fin(FINE_DIV * CENTS_PER_SEMITONE * ParamScale), OCTAVES_PER_UNIT_PITCH, ParamScale)
PITCH_MAX == FDiv(One, OCTAVES_PER_UNIT_PITCH, ParamScale)
PITCH_MIN == FDiv(FNeg(One), OCTAVES_PER_UNIT_PITCH, ParamScale)

CONTROLS == <<"Pitch", "PitchFine", "Mix">>

\* `i as usize`: a negative i32 wraps to a value far above any array length
\* (2^64 - |i| in the code, 2^30 - |i| here).
AsUsize(i) == IF i < 0 THEN i + 2^30 ELSE i

\* Control::from: a bounds-checked array index, which panics out of range
ControlFrom(i) ==
  LET u == AsUsize(i) IN IF u < Len(CONTROLS) THEN CONTROLS[u + 1] ELSE "panic"

\* the combined pitch of get_parameter_text, in cents
PitchCents(p, f) ==
  FMul(FAdd(F32Value(p), FMul(F32Value(f), PITCH_PER_FINE_PITCH, ParamScale)),
       CENTS_PER_UNIT_PITCH, ParamScale)

Normalize(v) == FDiv(FSub(v, PITCH_MIN), FSub(PITCH_MAX, PITCH_MIN), ParamScale)
Denormalize(v) == FAdd(FMul(v, FSub(PITCH_MAX, PITCH_MIN), ParamScale), PITCH_MIN)

\* get_parameter on the store <<p, f, m>>; the caller guards the index
GetParameterValue(p, f, m, index) ==
  LET c == ControlFrom(index)
  IN  IF c = "Pitch" THEN Normalize(F32Value(p))
      ELSE IF c = "PitchFine" THEN Normalize(F32Value(f))
      ELSE F32Value(m)

\* get_preset_data: the three fields' bytes, concatenated
PresetData(p, f, m) == ToLeBytes(p) \o ToLeBytes(f) \o ToLeBytes(m)

\* data[i..], with i a 0-based offset
SliceFrom(data, i) == SubSeq(data, i + 1, Len(data))

\* split_array_ref::<4>().0 on data[i..] panics when fewer than 4 bytes remain
CanSplit(data, i) == i <= Len(data) /\ Len(SliceFrom(data, i)) >= FIELD_BYTES
FieldAt(data, i) == FromLeBytes(SubSeq(SliceFrom(data, i), 1, FIELD_BYTES))

NoParams == <<U32(0, 0), U32(0, 0), U32(0, 0)>>
Idle == [data |-> <<>>, i |-> -1, before |-> NoParams]
Ret(op, index, status, num, bytes, flag) ==
  [op |-> op, index |-> index, status |-> status, num |-> num, bytes |-> bytes,
   flag |-> flag]
Panicked == ret.status = "panic"
\* the automation thread is between two calls
Ready == ~Panicked /\ ld = Idle

GetParameter(index) ==
  /\ Ready
  /\ ret' = IF ControlFrom(index) = "panic"
            THEN Ret("get_parameter", index, "panic", NaN, <<>>, FALSE)
            ELSE Ret("get_parameter", index, "ok",
                     GetParameterValue(pitch, pitch_fine, mix, index), <<>>, FALSE)
  /\ UNCHANGED <<params, ld, engine, audio>>

SetParameter(index, value) ==
  /\ Ready
  /\ LET c == ControlFrom(index)
     IN  /\ pitch' = IF c = "Pitch" THEN F32Bits(Denormalize(value)) ELSE pitch
         /\ pitch_fine' = IF c = "PitchFine" THEN F32Bits(Denormalize(value)) ELSE pitch_fine
         /\ mix' = IF c = "Mix" THEN F32Bits(value) ELSE mix
         /\ ret' = Ret("set_parameter", index, IF c = "panic" THEN "panic" ELSE "ok",
                       NaN, <<>>, FALSE)
  /\ UNCHANGED <<ld, engine, audio>>

\* get_parameter_label and get_parameter_name return a fixed string per control
GetParameterLabel(index) ==
  /\ Ready
  /\ ret' = Ret("get_parameter_label", index,
                IF ControlFrom(index) = "panic" THEN "panic" ELSE "ok",
                NaN, <<>>, FALSE)
  /\ UNCHANGED <<params, ld, engine, audio>>

GetParameterName(index) ==
  /\ Ready
  /\ ret' = Ret("get_parameter_name", index,
                IF ControlFrom(index) = "panic" THEN "panic" ELSE "ok",
                NaN, <<>>, FALSE)
  /\ UNCHANGED <<params, ld, engine, audio>>

\* get_parameter_text: the number it formats with three decimals
GetParameterText(index) ==
  /\ Ready
  /\ ret' = LET c == ControlFrom(index)
            IN  IF c = "panic"
                THEN Ret("get_parameter_text", index, "panic", NaN, <<>>, FALSE)
                ELSE Ret("get_parameter_text", index, "ok",
                         IF c = "Mix"
                         THEN FMul(F32Value(mix), Fin(PERCENT * ParamScale), ParamScale)
                         ELSE PitchCents(pitch, pitch_fine),
                         <<>>, FALSE)
  /\ UNCHANGED <<params, ld, engine, audio>>

CanBeAutomated(index) ==
  /\ Ready
  /\ ret' = Ret("can_be_automated", index, "ok", NaN, <<>>,
                index < Len(CONTROLS))
  /\ UNCHANGED <<params, ld, engine, audio>>

\* get_preset_data, and get_bank_data which forwards to it
GetPresetData ==
  /\ Ready
  /\ ret' = Ret("get_preset_data", 0, "ok", NaN,
                PresetData(pitch, pitch_fine, mix), FALSE)
  /\ UNCHANGED <<params, ld, engine, audio>>

\* the chunk the host holds from the get_preset_data it has just called
SavedChunk == IF ret.op = "get_preset_data" THEN {ret.bytes} ELSE {}

\* load_preset_data, and load_bank_data which forwards to it: entry, i = 0;
\* ret.flag tells that the data is the chunk just saved
LoadPresetData(data) ==
  /\ Ready
  /\ ld' = [data |-> data, i |-> 0, before |-> params]
  /\ ret' = Ret("load_preset_data", 0, "running", NaN, data, data \in SavedChunk)
  /\ UNCHANGED <<params, engine, audio>>

\* one of the three statements of load_preset_data: split, store, i += 4
LoadField ==
  /\ ~Panicked /\ ld # Idle
  /\ IF CanSplit(ld.data, ld.i)
     THEN /\ pitch' = IF ld.i = 0 THEN FieldAt(ld.data, ld.i) ELSE pitch
          /\ pitch_fine' = IF ld.i = FIELD_BYTES THEN FieldAt(ld.data, ld.i) ELSE pitch_fine
          /\ mix' = IF ld.i = 2 * FIELD_BYTES THEN FieldAt(ld.data, ld.i) ELSE mix
          /\ IF ld.i = 2 * FIELD_BYTES
             THEN ld' = Idle /\ ret' = [ret EXCEPT !.status = "ok"]
             ELSE ld' = [ld EXCEPT !.i = @ + FIELD_BYTES] /\ UNCHANGED ret
     ELSE /\ ret' = [ret EXCEPT !.status = "panic"]
          /\ UNCHANGED <<params, ld>>
  /\ UNCHANGED <<engine, audio>>

\* ---------------------------------------------------------- lib.rs
\* 2^(j/48) at scale RatioScale, j = 0 .. 47
Pow2Table ==
  <<4096, 4156, 4216, 4277, 4340, 4403, 4467, 4532, 4598, 4664, 4732, 4801,
    4871, 4942, 5014, 5087, 5161, 5236, 5312, 5389, 5468, 5547, 5628, 5710,
    5793, 5877, 5962, 6049, 6137, 6226, 6317, 6409, 6502, 6597, 6693, 6790,
    6889, 6989, 7090, 7194, 7298, 7404, 7512, 7621, 7732, 7845, 7959, 8075>>

\* 2.0f64.powf(o): o at scale ParamScale, the result at scale RatioScale.
\* An f64 overflows to infinity from 2^1024; ratios below 2^-30 are below the
\* model's resolution and are 0, as an f64 is below 2^-1075.
Pow2(o) ==
  IF o.k = "nan" THEN NaN
  ELSE IF o.k = "inf" THEN (IF o.v > 0 THEN Inf(1) ELSE Fin(0))
  ELSE LET whole == o.v \div ParamScale
           frac == Pow2Table[(o.v % ParamScale) + 1]
       IN  IF whole >= 1024 THEN Inf(1)
           ELSE IF whole < -30 THEN Fin(0)
           ELSE IF whole >= 0 THEN Fin(frac * 2^whole)
           ELSE Fin(frac \div 2^(-whole))

\* line 53: the octaves of the two pitch parameters read
Octaves(p, f) ==
  FMul(FAdd(F32Value(p), FMul(F32Value(f), PITCH_PER_FINE_PITCH, ParamScale)),
       OCTAVES_PER_UNIT_PITCH, ParamScale)

\* line 54: the pitch ratio
PitchMul(p, f) == Pow2(Octaves(p, f))

\* The phase is counted in units of TAU / (WINDOW_LENGTH * RatioScale).
TAU == Fin(WINDOW_LENGTH * RatioScale)

\* line 55: TAU*(pitch_mul - 1.0)/WINDOW_LENGTH, which in phase units is the
\* ratio minus one at scale RatioScale
DomegaDt(pm) == FSub(pm, Fin(RatioScale))

\* a float times the positive constant num/den
FScale(a, num, den) ==
  IF a.k = "fin" THEN Fin(TruncDiv(a.v * num, den)) ELSE a

\* r / pm and r * pm for r in Hz (scale 1) and a ratio pm at scale RatioScale
DivByRatio(r, pm) == FDiv(r, pm, RatioScale)
MulByRatio(r, pm) == FMul(r, pm, RatioScale)

\* lines 63-66: the four cutoffs, in rad/s, for rate r and ratio pm
OmegaCeil0(r, pm) ==
  FScale(IF FGt(FScale(pm, POW_MARGIN_FX, ConstScale), Fin(RatioScale))
         THEN FScale(DivByRatio(Fin(r), pm), POW_NEG_MARGIN_FX, ConstScale)
         ELSE Fin(r),
         PI_FX, ConstScale)
OmegaCeil1(r, pm) ==
  FScale(IF FLt(FScale(pm, POW_NEG_MARGIN_FX, ConstScale), Fin(RatioScale))
         THEN FScale(MulByRatio(Fin(r), pm), POW_NEG_MARGIN_FX, ConstScale)
         ELSE Fin(r),
         PI_FX, ConstScale)
OmegaFloor0(r, pm) ==
  FScale(FScale(FScale(DivByRatio(Fin(r), pm), 1, WINDOW_LENGTH \div 8),
                TAU_FX, ConstScale),
         POW_MARGIN_FX, ConstScale)
OmegaFloor1(r) ==
  FScale(FScale(FScale(Fin(r), 1, WINDOW_LENGTH \div 8), TAU_FX, ConstScale),
         POW_MARGIN_FX, ConstScale)

\* <<filter_low0, filter_low1, filter_high0, filter_high1>>.omega
Cutoffs(r, pm) ==
  <<OmegaCeil0(r, pm), OmegaCeil1(r, pm), OmegaFloor0(r, pm), OmegaFloor1(r)>>

\* no cache: the scheduler runs on every call
RatioChangedAlways(pm, cached) == TRUE

\* line 61: pitch_mul != self.pitch_mul
RatioChanged(pm, cached) == FNe(pm, cached)

\* the update without the + TAU that keeps the dividend positive
AdvancePhaseNoBias(w, d) == FRem(FAdd(w, d), TAU)

\* line 98: (omega + domega_dt + TAU) % TAU
AdvancePhase(w, d) == FRem(FAdd(FAdd(w, d), TAU), TAU)

\* the blend with dry and wet exchanged
MixOutputSwapped(m, dry, wet) ==
  FAdd(FMul(m, dry, ParamScale), FMul(FSub(One, m), wet, ParamScale))

\* line 96: (1.0 - mix)*x + mix*y, the three at scale ParamScale
MixOutput(m, dry, wet) ==
  FAdd(FMul(FSub(One, m), dry, ParamScale), FMul(m, wet, ParamScale))

\* the mix read from the store again for every sample
SampleMixReread == F32Value(mix)

\* line 57: the mix applied to a sample is the value read at the start of the call
SampleMix == F32Value(l_mix)
\* lines 54-55: so are the ratio and the phase increment
SampleRatio == PitchMul(l_pitch, l_fine)
SampleDomega == DomegaDt(SampleRatio)

\* lines 87-94: the processed value.  The Butterworth stages and the sliding
\* DFT are library code, fed finite samples: the result is some finite value
\* while the phase is finite and NaN once it is not (ifft_once multiplies
\* every bin by cis(omega)); a phase that is not finite never recovers.
WetValues == {Fin((3 * ParamScale) \div 4)}
Processed(w) == IF IsFinite(w) THEN WetValues ELSE {NaN}

\* ------------------------------------------------------------ inputs
\* sample rates the host negotiates
Rates == {DEFAULT_RATE, 48000}
\* input samples: full scale, and half scale inverted
SampleInputs == {One, Fin(-(ParamScale \div 2))}
\* normalized parameter values the host automates, all in [0, 1]
ParamValues == {Fin(0), Fin(ParamScale \div 4), Fin(ParamScale \div 2), One}
\* the <<index, value>> automated while audio runs: pitch down an octave,
\* fine pitch up a semitone, mix fully dry (mix is fully wet at construction)
EngineWrites == {<<0, Fin(0)>>, <<1, One>>, <<2, Fin(0)>>}
\* parameter indices the host passes; the declared ones are 0 .. 2
Indices == -1 .. 3

\* preset chunks: a saved in-range state, out-of-range values, a NaN with a
\* payload, pitch +infinity with fine pitch -infinity and mix 0 (a NaN ratio,
\* infinite or zero once one of the two is automated), and chunks of the
\* wrong length
PresetGood ==
  PresetData(F32Bits(Fin(ParamScale \div 2)), F32Bits(FNeg(One)), F32Bits(Fin(ParamScale \div 4)))
PresetWide ==
  PresetData(F32Bits(Fin(5 * ParamScale)), F32Bits(Fin(0)), F32Bits(Fin(2 * ParamScale)))
PresetNaN == PresetData(U32(32704, 1), F32Bits(Fin(0)), F32Bits(One))
PresetInf == PresetData(F32Bits(Inf(1)), F32Bits(Inf(-1)), F32Bits(Fin(0)))
PresetInputs ==
  {PresetGood, PresetWide, PresetNaN, PresetInf, PresetGood \o <<1>>}
    \cup {SubSeq(PresetWide, 1, k) : k \in {0, 3, 4, 7, 8, 11}}
EnginePresets == {PresetInf}

\* -------------------------------------------------------------- Init
\* PitchShifterPlugin::new
Init ==
  /\ pitch = F32Bits(Fin(0))
  /\ pitch_fine = F32Bits(Fin(0))
  /\ mix = F32Bits(One)
  /\ ld = Idle
  /\ ret = Ret("new", 0, "ok", NaN, <<>>, FALSE)
  /\ rate = DEFAULT_RATE
  /\ pitch_mul = NaN
  /\ anti_alias_filter =
       [c \in Channels |->
          [s \in 1 .. 4 |-> FScale(Fin(DEFAULT_RATE), PI_FX, ConstScale)]]
  /\ omega = [c \in Channels |-> Fin(0)]
  /\ pc = "idle"
  /\ l_pitch = U32(0, 0) /\ l_fine = U32(0, 0) /\ l_mix = U32(0, 0)
  /\ len = 0 /\ ch = 0 /\ n = 0
  /\ x = Fin(0) /\ y = Fin(0) /\ out = Fin(0)
  /\ recomputed = FALSE
  /\ applied = {}
  /\ held = FALSE
  /\ samples = 0

\* ------------------------------------------------- process, by steps
\* entry of process with a buffer of k samples per channel; first atomic
\* load of line 53
ReadPitch(k) ==
  /\ pc = "idle" /\ ~Panicked /\ samples + k <= MaxSamples
  /\ l_pitch' = pitch
  /\ len' = k
  /\ samples' = samples + k
  /\ held' = (samples > 0 /\ pitch = l_pitch)
  /\ applied' = {}
  /\ recomputed' = FALSE
  /\ pc' = "read_fine"
  /\ UNCHANGED <<params, auto, engine, l_fine, l_mix, ch, n, x, y, out>>

\* second atomic load of line 53
ReadFine ==
  /\ pc = "read_fine" /\ ~Panicked
  /\ l_fine' = pitch_fine
  /\ held' = (held /\ pitch_fine = l_fine)
  /\ pc' = "read_mix"
  /\ UNCHANGED <<params, auto, engine, l_pitch, l_mix, len, ch, n, x, y, out,
                 recomputed, applied, samples>>

\* line 57, the atomic load of mix, then lines 61-75, the cutoff scheduler
ReadMixAndSchedule ==
  /\ pc = "read_mix" /\ ~Panicked
  /\ l_mix' = mix
  /\ LET pm == PitchMul(l_pitch, l_fine)
     IN  IF RatioChanged(pm, pitch_mul)
         THEN /\ anti_alias_filter' = [c \in Channels |-> Cutoffs(rate, pm)]
              /\ pitch_mul' = pm
              /\ recomputed' = TRUE
         ELSE UNCHANGED <<anti_alias_filter, pitch_mul, recomputed>>
  /\ ch' = 0 /\ n' = 0
  /\ pc' = "run"
  /\ UNCHANGED <<params, auto, rate, omega, l_pitch, l_fine, len, x, y, out,
                 applied, held, samples>>

\* lines 83-99, one sample of channel ch
Sample(dry) ==
  /\ pc = "run" /\ ~Panicked
  /\ \E wet \in Processed(omega[ch]) :
       /\ x' = dry
       /\ y' = wet
       /\ out' = MixOutput(SampleMix, dry, wet)
  /\ omega' = [omega EXCEPT ![ch] = AdvancePhase(@, SampleDomega)]
  /\ applied' = applied \cup {<<SampleRatio, SampleDomega, SampleMix>>}
  /\ IF n + 1 < len
     THEN n' = n + 1 /\ UNCHANGED <<ch, pc>>
     ELSE IF ch + 1 < CHANNEL_COUNT
          THEN ch' = ch + 1 /\ n' = 0 /\ UNCHANGED pc
          ELSE ch' = 0 /\ n' = 0 /\ pc' = "idle"
  /\ UNCHANGED <<params, auto, rate, pitch_mul, anti_alias_filter, l_pitch, l_fine,
                 l_mix, len, recomputed, held, samples>>

\* set_sample_rate takes &mut self: only between two process calls
SetSampleRate(r) ==
  /\ pc = "idle" /\ ~Panicked
  /\ rate' = r
  /\ UNCHANGED <<params, auto, pitch_mul, anti_alias_filter, omega, audio>>

\* ------------------------------------------------------ specifications
\* the audio thread and the automation thread, interleaved
Next ==
  \/ \E k \in 1 .. MaxSamples : ReadPitch(k)
  \/ ReadFine
  \/ ReadMixAndSchedule
  \/ \E d \in SampleInputs : Sample(d)
  \/ \E r \in Rates : SetSampleRate(r)
  \/ \E w \in EngineWrites : SetParameter(w[1], w[2])
  \/ \E d \in EnginePresets : LoadPresetData(d)
  \/ LoadField

Spec == Init /\ [][Next]_vars

\* the host's calls on the parameter store alone
NextParams ==
  \/ \E i \in Indices : GetParameter(i)
  \/ \E i \in Indices, v \in ParamValues : SetParameter(i, v)
  \/ \E i \in Indices : GetParameterLabel(i)
  \/ \E i \in Indices : GetParameterText(i)
  \/ \E i \in Indices : GetParameterName(i)
  \/ \E i \in Indices : CanBeAutomated(i)
  \/ GetPresetData
  \/ \E d \in PresetInputs \cup SavedChunk : LoadPresetData(d)
  \/ LoadField

SpecParams == Init /\ [][NextParams]_vars

\* ------------------------------------------------------------ claims
PRESET_BYTES == 3 * FIELD_BYTES
IndexedOps ==
  {"get_parameter", "set_parameter", "get_parameter_label", "get_parameter_text",
   "get_parameter_name", "can_be_automated"}
InRange(w) == IsFinite(w) /\ 0 <= w.v /\ w.v < TAU.v
InUnit(v) == IsFinite(v) /\ 0 <= v.v /\ v.v <= ParamScale
\* a sample of the current buffer has been produced: x, y and out are its
\* values and l_mix is the mix it was blended with
SampleDone == applied # {}

\* C1: a sample-rate change invalidates the cutoff cache, so that the next
\* process call recomputes the cutoffs from the new rate: while a buffer is
\* processed, every channel's four cutoffs are those of the current rate and
\* the current ratio.
C1_CutoffsFollowRate ==
  pc = "run" => \A c \in Channels : anti_alias_filter[c] = Cutoffs(rate, SampleRatio)

\* C2: a process call that reads the pitch and fine-pitch values the previous
\* call read does not recompute the cutoffs.
C2_HeldNeverRecomputes == (pc = "run" /\ held) => ~recomputed

\* C2, amended: a process call that reads the pitch and fine-pitch values the
\* previous call read does not recompute the cutoffs, unless the ratio they
\* give is NaN.
C2_HeldRecomputesOnlyNaN ==
  (pc = "run" /\ held /\ ~IsNaN(SampleRatio)) => ~recomputed

\* a second call with the same, non-unit ratio runs without recomputing
C2_Witness ==
  /\ pc = "run" /\ held /\ ~recomputed
  /\ IsFinite(SampleRatio) /\ SampleRatio # Fin(RatioScale)

C4_MixExtremes ==
  SampleDone =>
    /\ FEq(SampleMix, Fin(0)) => out = x
    /\ FEq(SampleMix, One) => out = y

\* C4, amended: the same, whenever the processed sample is finite.
C4_MixExtremesFinite ==
  (SampleDone /\ IsFinite(y)) =>
    /\ FEq(SampleMix, Fin(0)) => out = x
    /\ FEq(SampleMix, One) => out = y

\* a fully dry sample whose processed value is finite and differs from the input
C4_Witness ==
  /\ SampleDone /\ FEq(SampleMix, Fin(0))
  /\ IsFinite(y) /\ y # x /\ out = x

\* C5: a load_preset_data that has ended on a chunk whose length is not 12
\* has failed.
C5_WrongLengthFails ==
  (ret.op = "load_preset_data" /\ ret.status # "running"
     /\ Len(ret.bytes) # PRESET_BYTES) => ret.status = "panic"

\* C6: a parameter-indexed call with an index outside 0..2 fails; at the
\* least, can_be_automated does not answer that the index is a parameter.
C6_IndexChecked ==
  (ret.op \in IndexedOps /\ ret.index \notin 0 .. Len(CONTROLS) - 1) =>
    \/ ret.status = "panic"
    \/ ret.op = "can_be_automated" /\ ~ret.flag

\* C7: get_parameter returns a value in [0, 1] for every index in 0..2.
C7_Normalized ==
  (ret.op = "get_parameter" /\ ret.status = "ok") => InUnit(ret.num)

\* C8: loading the chunk get_preset_data has just returned stores, field by
\* field, the bit patterns the store already held and does not fail; the chunk
\* is 12 bytes, the bytes of pitch, fine pitch and mix in this order.
C8_RoundTrip ==
  [][(ret.op = "load_preset_data" /\ ret.flag /\ ld # Idle) =>
       /\ params' = ld.before
       /\ ~Panicked'
       /\ Len(ld.data) = PRESET_BYTES
       /\ ld.data = ToLeBytes(ld.before[1]) \o ToLeBytes(ld.before[2])
                      \o ToLeBytes(ld.before[3])]_vars

\* the chunk saved from a store holding a NaN with a payload and three
\* different fields has been loaded back
C8_Witness ==
  /\ ret.op = "load_preset_data" /\ ret.flag /\ ret.status = "ok"
  /\ pitch = U32(32704, 1) /\ pitch_fine # mix /\ pitch_fine # pitch
  /\ ret.bytes = PresetData(pitch, pitch_fine, mix)

\* C9: all the samples of one process call are produced with one pitch ratio,
\* one phase increment and one mix value, and the cutoffs in force while the
\* buffer runs are those computed, at some rate, for that ratio.
C9_SampledOnce ==
  /\ Cardinality(applied) <= 1
  /\ pc = "run" =>
       \A c \in Channels :
         \E r \in Rates : anti_alias_filter[c] = Cutoffs(r, SampleRatio)

\* the second channel is running, a sample is out, and the automation thread
\* has changed both the pitch and the mix since process read them
C9_Witness ==
  /\ pc = "run" /\ ch = 1 /\ applied # {}
  /\ mix # l_mix /\ pitch # l_pitch

\* C10: a load_preset_data that has failed has left the three fields as they
\* were on entry.
C10_FailedLoadAtomic ==
  (ret.op = "load_preset_data" /\ Panicked) => params = ld.before

====
